---- MODULE Spec2Model ----
(***************************************************************************)
(* Model of the Markdown outline <-> node tree synchronisation of the      *)
(* mind map application: the Node objects (src/domain/node.py), the        *)
(* MarkdownParser and TreeToMarkdownConverter (src/parser) and the event   *)
(* handlers of MainWindow, MindMapView and NodeItem that keep the editor   *)
(* text and the tree in step (src/presentation).                           *)
(*                                                                         *)
(* Strings are sequences of one-character strings; "__virtual_root__" is   *)
(* kept as one indivisible chunk of a label.  Node objects are the keys of *)
(* the heap `nodes`; object identity is the key.  None is 0.               *)
(***************************************************************************)
EXTENDS Integers, Sequences, FiniteSets, TLC

VARIABLES
    nodes,            \* heap of Node objects: id -> [text, parent, children]
    nextId,           \* identity of the next Node object created
    lineMap,          \* MarkdownParser._line_to_node_map
    editorText,       \* content of the MarkdownEditor
    mmRoot,           \* MindMap._root
    viewRoot,         \* MindMapView._root_node
    viewItems,        \* keys of MindMapView._node_items (nodes drawn in the scene)
    updatingFromDrag, \* MainWindow._updating_from_drag
    lastEvent,        \* the handler that ran last, with its arguments
    log,              \* the calls made by the handler that ran last, in order
    exc,              \* exception raised by the call that ran last ("" = none)
    pc,               \* position of the parse/convert pipeline (SpecParse)
    input,            \* text handed to the first parse (SpecParse), to the last (SpecIndex)
    t1,               \* root returned by parse(input)
    s1,               \* convert(t1)
    t2,               \* root returned by parse(s1)
    s2                \* convert(t2)

vars == <<nodes, nextId, lineMap, editorText, mmRoot, viewRoot, viewItems,
          updatingFromDrag, lastEvent, log, exc, pc, input, t1, s1, t2, s2>>

None == 0

----------------------------------------------------------------------------
(* Bounds of the model. *)

MaxLines == 3      \* lines of an input text
NumNodes == 3      \* Node objects of the Node-level specification
MaxIds == 7        \* Node objects ever created in one run of the application
MaxCallLines == 2  \* lines of a text handed to a parser that is called repeatedly
MaxDepth == 2      \* deepest level of an entry handed to an assembly

----------------------------------------------------------------------------
(* Strings *)

NL == "\n"
VirtualRootText == <<"__virtual_root__">>

\* str.isspace for the characters of the model's alphabet (also regex \s)
IsSpace(c) == c \in {" ", "\t", NL}

RECURSIVE LStrip(_)
LStrip(s) == IF s # <<>> /\ IsSpace(Head(s)) THEN LStrip(Tail(s)) ELSE s

RECURSIVE RStrip(_)
RStrip(s) ==
    IF s # <<>> /\ IsSpace(s[Len(s)]) THEN RStrip(SubSeq(s, 1, Len(s) - 1)) ELSE s

\* str.strip()
Strip(s) == RStrip(LStrip(s))

\* str.split('\n')
RECURSIVE SplitLines(_)
SplitLines(s) ==
    IF \E i \in 1..Len(s) : s[i] = NL
    THEN LET i == CHOOSE j \in 1..Len(s) : s[j] = NL /\ \A k \in 1..(j - 1) : s[k] # NL
         IN  <<SubSeq(s, 1, i - 1)>> \o SplitLines(SubSeq(s, i + 1, Len(s)))
    ELSE <<s>>

\* "\n".join(lines)
RECURSIVE JoinLines(_)
JoinLines(ls) ==
    IF ls = <<>> THEN <<>>
    ELSE IF Len(ls) = 1 THEN ls[1]
    ELSE ls[1] \o <<NL>> \o JoinLines(Tail(ls))

\* length of the longest prefix of s made of characters of set cs
RECURSIVE RunLen(_, _)
RunLen(s, cs) == IF s # <<>> /\ Head(s) \in cs THEN 1 + RunLen(Tail(s), cs) ELSE 0

Drop(s, n) == SubSeq(s, n + 1, Len(s))

NoMatch == [ok |-> FALSE, g1 |-> <<>>, g2 |-> <<>>]

\* the tail `\s+(.+)$` of both patterns, matched against `after`: \s+ is greedy
\* and gives back one character when nothing is left for (.+)
GapAndContent(after) ==
    LET k == RunLen(after, {" ", "\t", NL})
        rest == Drop(after, k)
    IN  IF k = 0 THEN [ok |-> FALSE, g2 |-> <<>>]
        ELSE IF rest # <<>> THEN [ok |-> TRUE, g2 |-> rest]
        ELSE IF k >= 2 THEN [ok |-> TRUE, g2 |-> <<after[k]>>]
        ELSE [ok |-> FALSE, g2 |-> <<>>]

\* re.compile(r'^(\s*)[-*]\s+(.+)$').match(line)
ListMatch(line) ==
    LET n == RunLen(line, {" ", "\t", NL})
        rest == Drop(line, n)
    IN  IF rest = <<>> \/ Head(rest) \notin {"-", "*"} THEN NoMatch
        ELSE LET gc == GapAndContent(Tail(rest))
             IN  IF gc.ok THEN [ok |-> TRUE, g1 |-> SubSeq(line, 1, n), g2 |-> gc.g2]
                 ELSE NoMatch

MaxHeadingLevel == 6

\* re.compile(r'^(#{1,6})\s+(.+)$').match(line)
HeadingMatch(line) ==
    LET n == RunLen(line, {"#"})
    IN  IF n < 1 \/ n > MaxHeadingLevel THEN NoMatch
        ELSE LET gc == GapAndContent(Drop(line, n))
             IN  IF gc.ok THEN [ok |-> TRUE, g1 |-> SubSeq(line, 1, n), g2 |-> gc.g2]
                 ELSE NoMatch

\* len(indent.replace('\t', '  ')) // 2
RECURSIVE ExpandedLen(_)
ExpandedLen(s) ==
    IF s = <<>> THEN 0
    ELSE (IF Head(s) = "\t" THEN 2 ELSE 1) + ExpandedLen(Tail(s))

IndentLevel(indent) == ExpandedLen(indent) \div 2

\* an extraction that turns a non-blank line matching no pattern into an entry
RECURSIVE ExtractFromKeepsBody(_, _, _)
ExtractFromKeepsBody(lines, i, list) ==
    IF i > Len(lines) THEN <<>>
    ELSE LET m == IF list THEN ListMatch(lines[i]) ELSE HeadingMatch(lines[i])
             lvl == IF list THEN IndentLevel(m.g1) ELSE Len(m.g1)
         IN  (IF m.ok THEN <<[level |-> lvl, text |-> Strip(m.g2), line |-> i - 1]>>
              ELSE IF Strip(lines[i]) # <<>>
                   THEN <<[level |-> 0, text |-> Strip(lines[i]), line |-> i - 1]>>
                   ELSE <<>>) \o ExtractFromKeepsBody(lines, i + 1, list)

\* MarkdownParser._extract_list_items: (level, text, line_num) of each list line
RECURSIVE ExtractFrom(_, _, _)
ExtractFrom(lines, i, list) ==
    IF i > Len(lines) THEN <<>>
    ELSE LET m == IF list THEN ListMatch(lines[i]) ELSE HeadingMatch(lines[i])
             lvl == IF list THEN IndentLevel(m.g1) ELSE Len(m.g1)
         IN  (IF m.ok THEN <<[level |-> lvl, text |-> Strip(m.g2), line |-> i - 1]>>
              ELSE <<>>) \o ExtractFrom(lines, i + 1, list)

ExtractListItems(text) == ExtractFrom(SplitLines(text), 1, TRUE)

\* MarkdownParser._extract_headings
ExtractHeadings(text) == ExtractFrom(SplitLines(text), 1, FALSE)

----------------------------------------------------------------------------
(* Node (src/domain/node.py) *)

Contains(seq, x) == \E i \in 1..Len(seq) : seq[i] = x

\* list.remove(x): removes the first occurrence of x
RemoveFirst(seq, x) ==
    LET i == CHOOSE j \in 1..Len(seq) : seq[j] = x /\ \A k \in 1..(j - 1) : seq[k] # x
    IN  SubSeq(seq, 1, i - 1) \o SubSeq(seq, i + 1, Len(seq))

\* Node.__init__: a new object `id` with no parent and no children
NewNode(h, id, text) ==
    [x \in DOMAIN h \cup {id} |->
        IF x = id THEN [text |-> text, parent |-> None, children |-> <<>>] ELSE h[x]]

\* Node.add_child raises ValueError when list.remove does not find the child
AddChildRaises(h, self, child) ==
    /\ h[child].parent # None
    /\ ~Contains(h[h[child].parent].children, child)

\* add_child that forgets to take the child out of its old parent's list
AddChildNoDetach(h, self, child) ==
    LET h2 == IF ~Contains(h[self].children, child)
              THEN [h EXCEPT ![self].children = Append(@, child)]
              ELSE h
    IN  [h2 EXCEPT ![child].parent = self]

\* add_child that returns early when the child is in the list already
AddChildKeepPlace(h, self, child) ==
    IF Contains(h[self].children, child) THEN [h EXCEPT ![child].parent = self]
    ELSE LET old == h[child].parent
             h1 == IF old # None
                   THEN [h EXCEPT ![old].children = RemoveFirst(@, child)]
                   ELSE h
         IN  [h1 EXCEPT ![self].children = Append(@, child), ![child].parent = self]

\* add_child that puts the child at the front of the list
AddChildPrepend(h, self, child) ==
    LET old == h[child].parent
        h1 == IF old # None
              THEN [h EXCEPT ![old].children = RemoveFirst(@, child)]
              ELSE h
        h2 == IF ~Contains(h1[self].children, child)
              THEN [h1 EXCEPT ![self].children = <<child>> \o @]
              ELSE h1
    IN  [h2 EXCEPT ![child].parent = self]

\* Node.add_child(self, child)
AddChild(h, self, child) ==
    LET old == h[child].parent
        h1 == IF old # None
              THEN [h EXCEPT ![old].children = RemoveFirst(@, child)]
              ELSE h
        h2 == IF ~Contains(h1[self].children, child)
              THEN [h1 EXCEPT ![self].children = Append(@, child)]
              ELSE h1
    IN  [h2 EXCEPT ![child].parent = self]

\* remove_child that clears the parent reference but leaves the list as it is
RemoveChildKeepsEntry(h, self, child) ==
    IF Contains(h[self].children, child)
    THEN [h EXCEPT ![child].parent = None]
    ELSE h

\* Node.remove_child(self, child)
RemoveChild(h, self, child) ==
    IF Contains(h[self].children, child)
    THEN [h EXCEPT ![self].children = RemoveFirst(@, child), ![child].parent = None]
    ELSE h

----------------------------------------------------------------------------
(* MarkdownParser (src/parser/markdown_parser.py) *)

Min(S) == CHOOSE x \in S : \A y \in S : x <= y
Max(S) == CHOOSE x \in S : \A y \in S : x >= y

\* a parent lookup that also accepts the entry's own level
FindParentInclusive(level, level_stack) ==
    LET parent_levels == {l \in DOMAIN level_stack : l <= level}
    IN  IF parent_levels = {} THEN None ELSE level_stack[Max(parent_levels)]

\* a parent lookup that takes the smallest level below `level`
FindParentLowest(level, level_stack) ==
    LET parent_levels == {l \in DOMAIN level_stack : l < level}
    IN  IF parent_levels = {} THEN None ELSE level_stack[Min(parent_levels)]

\* MarkdownParser._find_parent: the node at the greatest level below `level`
FindParent(level, level_stack) ==
    LET parent_levels == {l \in DOMAIN level_stack : l < level}
    IN  IF parent_levels = {} THEN None ELSE level_stack[Max(parent_levels)]

MapPut(m, k, v) == [x \in DOMAIN m \cup {k} |-> IF x = k THEN v ELSE m[x]]

\* the loop over the entries shared by _build_tree_from_list and _build_tree:
\* create the node, record its line, attach it, close the levels >= level
RECURSIVE AttachItems(_, _, _, _)
AttachItems(acc, root, items, i) ==
    IF i > Len(items) THEN acc
    ELSE LET level == items[i].level
             new_node == acc.next
             h0 == NewNode(acc.nodes, new_node, items[i].text)
             parent == FindParent(level, acc.stack)
             h1 == AddChild(h0, IF parent # None THEN parent ELSE root, new_node)
             kept == {k \in DOMAIN acc.stack : ~(k >= level)}
         IN  AttachItems(
                 [nodes |-> h1,
                  stack |-> [k \in kept \cup {level} |->
                                IF k = level THEN new_node ELSE acc.stack[k]],
                  map   |-> MapPut(acc.map, items[i].line, new_node),
                  next  |-> new_node + 1],
                 root, items, i + 1)

AdjustLevels(items, delta) ==
    [i \in 1..Len(items) |-> [items[i] EXCEPT !.level = @ + delta]]

\* an assembly without the virtual root: the first entry is always the root
BuildFromFirstRoot(m, h, next, items, sentinel, offset) ==
    LET root == next
        acc == AttachItems(
                   [nodes |-> NewNode(h, root, items[1].text),
                    stack |-> [k \in {items[1].level} |-> root],
                    map   |-> MapPut(m, items[1].line, root),
                    next  |-> root + 1],
                   root, items, 2)
    IN  [nodes |-> acc.nodes, next |-> acc.next, root |-> root, map |-> acc.map]

\* an assembly that does not record the line of a root made from an entry
BuildFromRootUnmapped(m, h, next, items, sentinel, offset) ==
    LET min_level == Min({items[i].level : i \in 1..Len(items)})
        top_level_items == {i \in 1..Len(items) : items[i].level = min_level}
        root == next
    IN  IF Cardinality(top_level_items) > 1
        THEN LET acc == AttachItems(
                        [nodes |-> NewNode(h, root, VirtualRootText),
                         stack |-> [k \in {sentinel} |-> root],
                         map   |-> m,
                         next  |-> root + 1],
                        root, AdjustLevels(items, offset - min_level), 1)
             IN  [nodes |-> acc.nodes, next |-> acc.next, root |-> root, map |-> acc.map]
        ELSE LET acc == AttachItems(
                        [nodes |-> NewNode(h, root, items[1].text),
                         stack |-> [k \in {items[1].level} |-> root],
                         map   |-> m,
                         next  |-> root + 1],
                        root, items, 2)
             IN  [nodes |-> acc.nodes, next |-> acc.next, root |-> root, map |-> acc.map]

\* the assembly shared by the two dialects, writing into the parser's map m:
\* `sentinel` is the level of the virtual root and `offset` the level given to
\* the entries at the minimum
BuildFrom(m, h, next, items, sentinel, offset) ==
    LET min_level == Min({items[i].level : i \in 1..Len(items)})
        top_level_items == {i \in 1..Len(items) : items[i].level = min_level}
        root == next
    IN  IF Cardinality(top_level_items) > 1
        THEN LET acc == AttachItems(
                        [nodes |-> NewNode(h, root, VirtualRootText),
                         stack |-> [k \in {sentinel} |-> root],
                         map   |-> m,
                         next  |-> root + 1],
                        root, AdjustLevels(items, offset - min_level), 1)
             IN  [nodes |-> acc.nodes, next |-> acc.next, root |-> root, map |-> acc.map]
        ELSE LET acc == AttachItems(
                        [nodes |-> NewNode(h, root, items[1].text),
                         stack |-> [k \in {items[1].level} |-> root],
                         map   |-> MapPut(m, items[1].line, root),
                         next  |-> root + 1],
                        root, items, 2)
             IN  [nodes |-> acc.nodes, next |-> acc.next, root |-> root, map |-> acc.map]

\* MarkdownParser._build_tree_from_list: virtual root at level -1, entries from 0
BuildTreeFromList(m, h, next, items) == BuildFrom(m, h, next, items, -1, 0)

\* a heading assembly that never makes a virtual root
BuildTreeFirstRoot(m, h, next, headings) ==
    BuildFromFirstRoot(m, h, next, headings, 0, 1)

\* MarkdownParser._build_tree: virtual root at level 0, entries from 1
BuildTree(m, h, next, headings) == BuildFrom(m, h, next, headings, 0, 1)

\* a clear() that leaves the entries of the previous parse in the map
ClearMapKeeps(m) == m

\* self._line_to_node_map.clear()
ClearMap(m) == <<>>

\* a parse that looks for headings first and for list lines only without them
ParseHeadingsFirst(m, h, next, markdown_text) ==
    LET m0 == ClearMap(m)
        empty == [nodes |-> h, next |-> next, root |-> None, map |-> m0]
        items == ExtractListItems(markdown_text)
        headings == ExtractHeadings(markdown_text)
    IN  IF Strip(markdown_text) = <<>> THEN empty
        ELSE IF headings # <<>> THEN BuildTree(m0, h, next, headings)
        ELSE IF items = <<>> THEN empty
        ELSE BuildTreeFromList(m0, h, next, items)

\* MarkdownParser.parse on the parser whose map is m and whose objects live in
\* heap h; `next` is the identity of the next object created
Parse(m, h, next, markdown_text) ==
    LET m0 == ClearMap(m)
        empty == [nodes |-> h, next |-> next, root |-> None, map |-> m0]
        items == ExtractListItems(markdown_text)
        headings == ExtractHeadings(markdown_text)
    IN  IF Strip(markdown_text) = <<>> THEN empty
        ELSE IF items # <<>> THEN BuildTreeFromList(m0, h, next, items)
        ELSE IF headings = <<>> THEN empty
        ELSE BuildTree(m0, h, next, headings)

\* MarkdownParser.get_node_by_line
GetNodeByLine(m, line_number) == IF line_number \in DOMAIN m THEN m[line_number] ELSE None

\* MarkdownParser.get_line_by_node: the first line (in insertion order, which is
\* ascending) mapped to the node; -1 stands for None
GetLineByNode(m, node) ==
    IF \E l \in DOMAIN m : m[l] = node
    THEN Min({l \in DOMAIN m : m[l] = node})
    ELSE -1

----------------------------------------------------------------------------
(* TreeToMarkdownConverter (src/parser/tree_to_markdown.py) *)

RECURSIVE Spaces(_)
Spaces(n) == IF n = 0 THEN <<>> ELSE <<" ">> \o Spaces(n - 1)

IndentWidth == 2

\* TreeToMarkdownConverter._convert_node: the lines of the subtree of node
RECURSIVE ConvertNode(_, _, _)
RECURSIVE ConvertChildren(_, _, _, _)
\* a _convert_node that passes its own depth on to the children
ConvertNodeFlat(h, node, depth) ==
    <<Spaces(IndentWidth * depth) \o <<"-", " ">> \o h[node].text>>
        \o ConvertChildren(h, h[node].children, 1, depth)

ConvertNode(h, node, depth) ==
    <<Spaces(IndentWidth * depth) \o <<"-", " ">> \o h[node].text>>
        \o ConvertChildren(h, h[node].children, 1, depth + 1)
ConvertChildren(h, children, i, depth) ==
    IF i > Len(children) THEN <<>>
    ELSE ConvertNode(h, children[i], depth) \o ConvertChildren(h, children, i + 1, depth)

\* a convert that treats the virtual root like any other node
ConvertEmitsRoot(h, root) ==
    IF root = None THEN <<>> ELSE JoinLines(ConvertNode(h, root, 0))

\* TreeToMarkdownConverter.convert
Convert(h, root) ==
    IF root = None THEN <<>>
    ELSE IF h[root].text = VirtualRootText
         THEN JoinLines(ConvertChildren(h, h[root].children, 1, 0))
         ELSE JoinLines(ConvertNode(h, root, 0))

----------------------------------------------------------------------------
(* Structure of a tree, for comparing trees whose nodes differ in identity *)

\* <<label, <<shape of child 1, ...>>>>; <<>> for None
RECURSIVE Shape(_, _)
RECURSIVE ShapeList(_, _, _)
Shape(h, node) ==
    IF node = None THEN <<>>
    ELSE <<h[node].text, ShapeList(h, h[node].children, 1)>>
ShapeList(h, children, i) ==
    IF i > Len(children) THEN <<>>
    ELSE <<Shape(h, children[i])>> \o ShapeList(h, children, i + 1)

----------------------------------------------------------------------------
(* Input texts *)

\* the lines input texts are made of
LineSet ==
    { <<"-", " ", "a">>,                        \* list entry, level 0
      <<" ", " ", "-", " ", "b">>,              \* level 1
      <<" ", " ", " ", " ", "*", " ", "a">>,    \* level 2, star marker
      <<"\t", "-", " ", "b", " ">>,             \* tab indent, trailing blank
      <<" ", "-", "\t", "a">>,                  \* odd indent, tab after the marker
      <<"-", " ", " ">>,                        \* marker followed by blanks only
      <<"-", " ", "__virtual_root__">>,         \* entry labelled like the virtual root
      <<"#", " ", "a">>,                        \* heading, level 1
      <<"#", "#", " ", "b">>,                   \* heading, level 2
      <<"#", "#", "#", " ", "-", " ", "a">>,    \* heading, level 3, label "- a"
      <<"a">>,                                  \* body text
      <<>> }                                    \* empty line

SeqsUpTo(S, n) == UNION {[1..k -> S] : k \in 0..n}

Texts == {JoinLines(ls) : ls \in SeqsUpTo(LineSet, MaxLines)}

----------------------------------------------------------------------------
(* SpecParse: parse and convert applied to every input text                *)
(*   t1 = parse(input); s1 = convert(t1); t2 = parse(s1); s2 = convert(t2) *)

AppIdle ==
    /\ editorText = <<>>
    /\ mmRoot = None
    /\ viewRoot = None
    /\ viewItems = {}
    /\ updatingFromDrag = FALSE
    /\ lastEvent = [op |-> "init", a |-> None, b |-> None, c |-> None]
    /\ log = <<>>
    /\ exc = ""

InitParse ==
    /\ input \in Texts
    /\ pc = "start"
    /\ nodes = <<>>
    /\ nextId = 1
    /\ lineMap = <<>>
    /\ t1 = None /\ s1 = <<>> /\ t2 = None /\ s2 = <<>>
    /\ AppIdle

appVars == <<editorText, mmRoot, viewRoot, viewItems, updatingFromDrag,
             lastEvent, log, exc>>

ParseInput ==
    /\ pc = "start"
    /\ LET r == Parse(lineMap, nodes, nextId, input)
       IN  /\ nodes' = r.nodes
           /\ nextId' = r.next
           /\ lineMap' = r.map
           /\ t1' = r.root
    /\ pc' = "parsed"
    /\ UNCHANGED <<input, s1, t2, s2, appVars>>

ConvertTree ==
    /\ pc = "parsed"
    /\ s1' = Convert(nodes, t1)
    /\ pc' = "converted"
    /\ UNCHANGED <<nodes, nextId, lineMap, input, t1, t2, s2, appVars>>

ParseAgain ==
    /\ pc = "converted"
    /\ LET r == Parse(lineMap, nodes, nextId, s1)
       IN  /\ nodes' = r.nodes
           /\ nextId' = r.next
           /\ lineMap' = r.map
           /\ t2' = r.root
    /\ pc' = "reparsed"
    /\ UNCHANGED <<input, t1, s1, s2, appVars>>

ConvertAgain ==
    /\ pc = "reparsed"
    /\ s2' = Convert(nodes, t2)
    /\ pc' = "done"
    /\ UNCHANGED <<nodes, nextId, lineMap, input, t1, s1, t2, appVars>>

NextParse == ParseInput \/ ConvertTree \/ ParseAgain \/ ConvertAgain

SpecParse == InitParse /\ [][NextParse]_vars

\* C1 -- Round-trip stability: for every tree t1 that parse returns,
\* parse(convert(t1)) is a tree of the same shape, labels and child order.
RoundTripStable ==
    pc \in {"reparsed", "done"} => Shape(nodes, t2) = Shape(nodes, t1)

\* C2 -- Idempotent re-parse: for every tree t1 that parse returns,
\* convert(parse(convert(t1))) is the same text as convert(t1).
IdempotentReparse == pc = "done" => s2 = s1

----------------------------------------------------------------------------
(* SpecNode: add_child and remove_child called in any order, on any pair  *)
(* of nodes, starting from freshly created nodes                          *)

parseVars == <<pc, input, t1, s1, t2, s2>>

ParseIdle ==
    /\ pc = "idle"
    /\ input = <<>>
    /\ t1 = None /\ s1 = <<>> /\ t2 = None /\ s2 = <<>>

\* the nodes passed on the way from node n up to its root (n itself only when
\* n lies on a cycle)
RECURSIVE Climb(_, _, _)
Climb(h, n, seen) ==
    LET p == h[n].parent
    IN  IF p = None \/ p \in seen THEN seen ELSE Climb(h, p, seen \cup {p})

Ancestors(h, n) == Climb(h, n, {})

InitNode ==
    /\ nodes = [i \in 1..NumNodes |->
                   [text |-> <<"a">>, parent |-> None, children |-> <<>>]]
    /\ nextId = NumNodes + 1
    /\ lineMap = <<>>
    /\ AppIdle
    /\ ParseIdle

\* self.add_child(child); lastEvent.c records child's parent before the call
CallAddChild ==
    \E self \in DOMAIN nodes, child \in DOMAIN nodes :
        /\ IF AddChildRaises(nodes, self, child)
           THEN nodes' = nodes /\ exc' = "ValueError"
           ELSE nodes' = AddChild(nodes, self, child) /\ exc' = ""
        /\ lastEvent' = [op |-> "add_child", a |-> self, b |-> child,
                         c |-> nodes[child].parent]
        /\ UNCHANGED <<nextId, lineMap, editorText, mmRoot, viewRoot, viewItems,
                       updatingFromDrag, log, parseVars>>

\* self.remove_child(child)
CallRemoveChild ==
    \E self \in DOMAIN nodes, child \in DOMAIN nodes :
        /\ nodes' = RemoveChild(nodes, self, child)
        /\ exc' = ""
        /\ lastEvent' = [op |-> "remove_child", a |-> self, b |-> child,
                         c |-> nodes[child].parent]
        /\ UNCHANGED <<nextId, lineMap, editorText, mmRoot, viewRoot, viewItems,
                       updatingFromDrag, log, parseVars>>

NextNode == CallAddChild \/ CallRemoveChild

SpecNode == InitNode /\ [][NextNode]_vars

\* C3 -- Parent/child agreement: node n is in the children list of p if and
\* only if the parent reference of n is p.
ParentChildAgree ==
    \A p \in DOMAIN nodes, n \in DOMAIN nodes :
        Contains(nodes[p].children, n) <=> nodes[n].parent = p

\* a node has been moved from one parent to another that has other children
ParentChildAgreeWitness ==
    /\ lastEvent.op = "add_child"
    /\ lastEvent.c \notin {None, lastEvent.a}
    /\ nodes[lastEvent.b].parent = lastEvent.a
    /\ Len(nodes[lastEvent.a].children) >= 2
    /\ \E n \in DOMAIN nodes : nodes[n].parent = None /\ nodes[n].children # <<>>

\* C5 -- a reparent whose new parent is the node itself or one of its
\* descendants raises InvalidReparentError and leaves every parent reference
\* and every children list unchanged.
InvalidReparentRejected ==
    [][(/\ lastEvent'.op = "add_child"
        /\ \/ lastEvent'.a = lastEvent'.b
           \/ lastEvent'.b \in Ancestors(nodes, lastEvent'.a))
       => (exc' = "InvalidReparentError" /\ nodes' = nodes)]_vars

\* C6 -- Reparent effect: newParent.add_child(node), for a node that is not
\* newParent and not an ancestor of newParent, removes node from the children
\* list of its previous parent, leaves node as the last child of newParent and
\* sets node's parent to newParent, also when newParent was its parent already.
ReparentEffect ==
    [][\A newParent \in DOMAIN nodes, node \in DOMAIN nodes :
        (/\ lastEvent' = [op |-> "add_child", a |-> newParent, b |-> node,
                          c |-> nodes[node].parent]
         /\ node # newParent
         /\ node \notin Ancestors(nodes, newParent))
        => LET old == nodes[node].parent
               kids == nodes'[newParent].children
           IN  /\ exc' = ""
               /\ (old \notin {None, newParent})
                      => ~Contains(nodes'[old].children, node)
               /\ kids # <<>> /\ kids[Len(kids)] = node
               /\ Cardinality({i \in 1..Len(kids) : kids[i] = node}) = 1
               /\ nodes'[node].parent = newParent]_vars

\* add_child has moved a node to the end of the list of the parent it had
ReparentEffectWitness ==
    /\ lastEvent.op = "add_child"
    /\ lastEvent.c = lastEvent.a
    /\ lastEvent.a # lastEvent.b
    /\ Len(nodes[lastEvent.a].children) >= 2
    /\ nodes[lastEvent.a].children[Len(nodes[lastEvent.a].children)] = lastEvent.b

----------------------------------------------------------------------------
(* The application: MainWindow with its editor, parser, converter, MindMap *)
(* and MindMapView.  A handler runs to completion; it is an operator on    *)
(* the record S of the objects' fields, and the calls it makes are         *)
(* appended to S.log.  Layout and painting are not modelled: of the scene  *)
(* only the set of nodes that have a NodeItem is kept.                     *)

ChildSet(h, n) == {h[n].children[i] : i \in 1..Len(h[n].children)}

\* the nodes reachable from the nodes of N along the children lists
RECURSIVE Reach(_, _)
Reach(h, N) ==
    LET M == N \cup UNION {ChildSet(h, n) : n \in N}
    IN  IF M = N THEN N ELSE Reach(h, M)

\* a walk down the children lists from root never ends (Python: RecursionError)
CyclicFrom(h, root) ==
    \E n \in Reach(h, {root}) : n \in Reach(h, ChildSet(h, n))

\* a descendant check that looks at the node itself only
IsDescendantSelfOnly(h, self, node) == node = self

\* NodeItem._is_descendant: node is self._node or below it
IsDescendant(h, self, node) == node \in Reach(h, {self})

\* NodeItem._update_hover_target: item may become the drop target of self
HoverTarget(h, self, item) == item # self /\ ~IsDescendant(h, self, item)

\* the nodes MindMapView.display_tree creates a NodeItem for
DrawnNodes(h, root) ==
    IF h[root].text = VirtualRootText
    THEN Reach(h, ChildSet(h, root))
    ELSE Reach(h, {root})

Logged(S, call) == [S EXCEPT !.log = Append(@, call)]

\* a display_tree that draws the new tree but keeps the root it had
DisplayTreeKeepsRoot(S, root) ==
    LET S1 == [Logged(S, "display_tree") EXCEPT !.viewItems = {}]
    IN  IF root = None THEN S1
        ELSE IF CyclicFrom(S.nodes, root) THEN [S1 EXCEPT !.exc = "RecursionError"]
        ELSE [S1 EXCEPT !.viewItems = DrawnNodes(S.nodes, root)]

\* MindMapView.display_tree
DisplayTree(S, root) ==
    LET S1 == [Logged(S, "display_tree") EXCEPT !.viewRoot = root, !.viewItems = {}]
    IN  IF root = None THEN S1
        ELSE IF CyclicFrom(S.nodes, root) THEN [S1 EXCEPT !.exc = "RecursionError"]
        ELSE [S1 EXCEPT !.viewItems = DrawnNodes(S.nodes, root)]

\* a text-changed handler without the guard on the drag flag
OnTextChangedNoGuard(S, text) ==
    LET r == Parse(S.lineMap, S.nodes, S.nextId, text)
        S1 == [Logged(Logged(Logged(S, "text_changed"), "parse"), "set_root")
                  EXCEPT !.nodes = r.nodes, !.nextId = r.next,
                         !.lineMap = r.map, !.mmRoot = r.root]
    IN  DisplayTree(S1, r.root)

\* a text-changed handler that replaces the root only by a tree, never by None
OnTextChangedKeepsRoot(S, text) ==
    IF S.updatingFromDrag THEN Logged(S, "text_changed")
    ELSE LET r == Parse(S.lineMap, S.nodes, S.nextId, text)
             S1 == [Logged(Logged(Logged(S, "text_changed"), "parse"), "set_root")
                       EXCEPT !.nodes = r.nodes, !.nextId = r.next,
                              !.lineMap = r.map,
                              !.mmRoot = IF r.root # None THEN r.root ELSE @]
         IN  DisplayTree(S1, r.root)

\* MainWindow._on_text_changed
OnTextChanged(S, text) ==
    IF S.updatingFromDrag THEN Logged(S, "text_changed")
    ELSE LET r == Parse(S.lineMap, S.nodes, S.nextId, text)
             S1 == [Logged(Logged(Logged(S, "text_changed"), "parse"), "set_root")
                       EXCEPT !.nodes = r.nodes, !.nextId = r.next,
                              !.lineMap = r.map, !.mmRoot = r.root]
         IN  DisplayTree(S1, r.root)

\* MarkdownEditor.set_text: the new content is signalled as a text change
SetText(S, text) ==
    OnTextChanged([Logged(S, "set_text") EXCEPT !.editorText = text], text)

\* a reparent handler that converts the root but does not update the editor
OnNodeReparentedNoWrite(S, dropped_node, target_node) ==
    LET S1 == [Logged(S, "drag_flag_on") EXCEPT !.updatingFromDrag = TRUE]
        root == S1.mmRoot
    IN  IF root # None /\ CyclicFrom(S1.nodes, root)
        THEN [Logged(S1, "convert") EXCEPT !.exc = "RecursionError"]
        ELSE [Logged(Logged(S1, "convert"), "drag_flag_off")
                 EXCEPT !.updatingFromDrag = FALSE]

\* a reparent handler that writes the text without raising the drag flag
OnNodeReparentedUnflagged(S, dropped_node, target_node) ==
    LET S1 == Logged(S, "drag_flag_on")
        root == S1.mmRoot
    IN  IF root # None /\ CyclicFrom(S1.nodes, root)
        THEN [Logged(S1, "convert") EXCEPT !.exc = "RecursionError"]
        ELSE LET S2 == SetText(Logged(S1, "convert"), Convert(S1.nodes, root))
             IN  [Logged(S2, "drag_flag_off") EXCEPT !.updatingFromDrag = FALSE]

\* MainWindow._on_node_reparented
OnNodeReparented(S, dropped_node, target_node) ==
    LET S1 == [Logged(S, "drag_flag_on") EXCEPT !.updatingFromDrag = TRUE]
        root == S1.mmRoot
    IN  IF root # None /\ CyclicFrom(S1.nodes, root)
        THEN [Logged(S1, "convert") EXCEPT !.exc = "RecursionError"]
        ELSE LET S2 == SetText(Logged(S1, "convert"), Convert(S1.nodes, root))
             IN  [Logged(S2, "drag_flag_off") EXCEPT !.updatingFromDrag = FALSE]

\* MindMapView._on_node_dropped
OnNodeDropped(S, dropped_node, target_node) ==
    LET old == S.nodes[dropped_node].parent
        h1 == IF old # None THEN RemoveChild(S.nodes, old, dropped_node) ELSE S.nodes
    IN  IF AddChildRaises(h1, target_node, dropped_node)
        THEN [Logged(S, "add_child") EXCEPT !.nodes = h1, !.exc = "ValueError"]
        ELSE LET S1 == [Logged(S, "add_child")
                           EXCEPT !.nodes = AddChild(h1, target_node, dropped_node)]
                 S2 == DisplayTree(S1, S1.viewRoot)
             IN  IF S2.exc # "" THEN S2
                 ELSE OnNodeReparented(Logged(S2, "node_reparented"),
                                       dropped_node, target_node)

RECURSIVE CollectNodes(_, _, _), CollectEach(_, _, _)

\* MindMap._collect_nodes: append the node, then collect each child in turn
CollectNodes(h, node, result) ==
    CollectEach(h, h[node].children, Append(result, node))

\* the loop over node.children in MindMap._collect_nodes
CollectEach(h, children, result) ==
    IF children = <<>> THEN result
    ELSE CollectEach(h, Tail(children), CollectNodes(h, Head(children), result))

\* a traversal that stops below the root's children
GetAllNodesOneLevel(h, root) ==
    IF root = None THEN <<>> ELSE <<root>> \o h[root].children

\* MindMap.get_all_nodes
GetAllNodes(h, root) ==
    IF root = None THEN <<>> ELSE CollectNodes(h, root, <<>>)

\* MindMap.clear
Clear(S) == [Logged(S, "clear") EXCEPT !.mmRoot = None]

\* MainWindow._on_new, once the user has agreed to drop unsaved changes
OnNew(S) == Clear(SetText(S, <<>>))

\* the objects still referenced once a handler has returned
Referenced(S) ==
    LET roots == ({S.mmRoot, S.viewRoot} \ {None}) \cup S.viewItems
                     \cup {S.lineMap[l] : l \in DOMAIN S.lineMap}
    IN  Reach(S.nodes, roots \cup UNION {Ancestors(S.nodes, n) : n \in roots})

\* unreferenced Node objects are reclaimed
Collect(S) == [S EXCEPT !.nodes = [n \in Referenced(S) |-> S.nodes[n]]]

Cur ==
    [nodes |-> nodes, nextId |-> nextId, lineMap |-> lineMap,
     editorText |-> editorText, mmRoot |-> mmRoot, viewRoot |-> viewRoot,
     viewItems |-> viewItems, updatingFromDrag |-> updatingFromDrag,
     log |-> <<>>, exc |-> ""]

Becomes(S) ==
    /\ nodes' = S.nodes
    /\ nextId' = S.nextId
    /\ lineMap' = S.lineMap
    /\ editorText' = S.editorText
    /\ mmRoot' = S.mmRoot
    /\ viewRoot' = S.viewRoot
    /\ viewItems' = S.viewItems
    /\ updatingFromDrag' = S.updatingFromDrag
    /\ log' = S.log
    /\ exc' = S.exc

\* the lines the user's texts are made of
EditLines ==
    { <<"-", " ", "a">>,              \* list entry, level 0
      <<" ", " ", "-", " ", "b">>,    \* list entry, level 1
      <<"#", " ", "c">> }             \* heading; no entry beside list lines

EditTexts == {JoinLines(ls) : ls \in SeqsUpTo(EditLines, MaxLines)}

InitApp ==
    /\ nodes = <<>>
    /\ nextId = 1
    /\ lineMap = <<>>
    /\ AppIdle
    /\ ParseIdle

\* the user changes the text in the editor: MarkdownEditor._on_text_changed
\* emits text_changed with the new content
UserEdit ==
    \E text \in EditTexts :
        /\ text # editorText
        /\ nextId + MaxLines <= MaxIds
        /\ \E S \in {Collect(OnTextChanged([Cur EXCEPT !.editorText = text], text))} :
               Becomes(S)
        /\ lastEvent' = [op |-> "edit", a |-> None, b |-> None, c |-> None]
        /\ UNCHANGED parseVars

\* the user drags the item of node `dropped` onto the item of node `target`:
\* NodeItem.mouseReleaseEvent emits node_dropped for the hover target
NodeDrop ==
    \E dropped \in viewItems, target \in viewItems :
        /\ HoverTarget(nodes, dropped, target)
        /\ \E S \in {Collect(OnNodeDropped(Cur, dropped, target))} : Becomes(S)
        /\ lastEvent' = [op |-> "drop", a |-> dropped, b |-> target,
                         c |-> nodes[dropped].parent]
        /\ UNCHANGED parseVars

\* the user chooses File > New and agrees to drop unsaved changes
NewFile ==
    /\ \E S \in {Collect(OnNew(Cur))} : Becomes(S)
    /\ lastEvent' = [op |-> "new", a |-> mmRoot, b |-> None, c |-> None]
    /\ UNCHANGED parseVars

NextApp == UserEdit \/ NodeDrop \/ NewFile

SpecApp == InitApp /\ [][NextApp]_vars

Count(seq, x) == Cardinality({i \in 1..Len(seq) : seq[i] = x})

\* C4 -- Acyclicity: after any sequence of text edits and drag-and-drop
\* reparents no node is its own ancestor.
Acyclic == \A n \in DOMAIN nodes : n \notin Ancestors(nodes, n)

\* a drop has moved a node from its parent to another node of the tree
AcyclicWitness ==
    /\ lastEvent.op = "drop"
    /\ lastEvent.c \notin {None, lastEvent.b}
    /\ nodes[lastEvent.a].parent = lastEvent.b
    /\ nodes[lastEvent.b].parent # None
    /\ nodes[lastEvent.a].children # <<>>

\* the calls of one handled drop, in order
DropCalls ==
    <<"add_child", "display_tree", "node_reparented", "drag_flag_on", "convert",
      "set_text", "text_changed", "drag_flag_off">>

\* C7 -- No edit loop: the text-change notification raised by the engine's own
\* set_text during a reparent runs no parse and leaves the MindMap root, the
\* Line-Node Index and the view's root as they were; one reparent causes
\* exactly one serialization and no parse.
NoEditLoop ==
    [][lastEvent'.op = "drop"
       => /\ Count(log', "text_changed") = 1
          /\ Count(log', "parse") = 0
          /\ Count(log', "convert") = 1
          /\ log' = DropCalls
          /\ mmRoot' = mmRoot
          /\ lineMap' = lineMap
          /\ viewRoot' = viewRoot
          /\ nextId' = nextId]_vars

\* a drop has been handled and its notification has arrived
NoEditLoopWitness ==
    /\ lastEvent.op = "drop"
    /\ Count(log, "text_changed") = 1
    /\ editorText # <<>>
    /\ mmRoot # None

\* C8 -- a reparent handled while idle sets the flag, serializes the MindMap
\* root, writes the text to the editor and clears the flag: when the handler
\* returns the flag is clear and the editor text is convert(mindmap.root).
ReparentWritesText ==
    lastEvent.op = "drop"
        => /\ exc = ""
           /\ updatingFromDrag = FALSE
           /\ log = DropCalls
           /\ editorText = Convert(nodes, mmRoot)

\* the text written by a handled drop has an entry below another entry
ReparentWritesTextWitness ==
    /\ lastEvent.op = "drop"
    /\ updatingFromDrag = FALSE
    /\ Len(editorText) > 3
    /\ \E i \in 1..Len(editorText) - 1 :
           editorText[i] = NL /\ editorText[i + 1] = " "

\* C9 -- a text change while idle parses exactly the new text: when the
\* handler returns, the MindMap root is the tree parse returned for the editor
\* text, the Line-Node Index is the one of that text, the view shows the same
\* root and the flag is clear.
EditParsesText ==
    lastEvent.op = "edit"
        => LET r == Parse(<<>>, <<>>, 1, editorText)
           IN  /\ updatingFromDrag = FALSE
               /\ log = <<"text_changed", "parse", "set_root", "display_tree">>
               /\ (mmRoot = None) <=> (r.root = None)
               /\ Shape(nodes, mmRoot) = Shape(r.nodes, r.root)
               /\ viewRoot = mmRoot
               /\ DOMAIN lineMap = DOMAIN r.map
               /\ \A l \in DOMAIN lineMap :
                      /\ lineMap[l] \in Reach(nodes, {mmRoot})
                      /\ lineMap[l] - mmRoot = r.map[l] - r.root
                      /\ nodes[lineMap[l]].text = r.nodes[r.map[l]].text

\* an edit has replaced a tree by the tree of a text with nested entries
EditParsesTextWitness ==
    /\ lastEvent.op = "edit"
    /\ mmRoot > 1
    /\ nodes[mmRoot].children # <<>>
    /\ Cardinality(DOMAIN lineMap) >= 2

\* the node of each line convert emits, in the order of the lines
RECURSIVE LineNodes(_, _)
RECURSIVE LineNodesOf(_, _, _)
LineNodes(h, node) == <<node>> \o LineNodesOf(h, h[node].children, 1)
LineNodesOf(h, children, i) ==
    IF i > Len(children) THEN <<>>
    ELSE LineNodes(h, children[i]) \o LineNodesOf(h, children, i + 1)

ShownNodes(h, root) ==
    IF root = None THEN <<>>
    ELSE IF h[root].text = VirtualRootText THEN LineNodesOf(h, h[root].children, 1)
    ELSE LineNodes(h, root)

\* C10 -- after a reparent has been handled the Line-Node Index is consistent
\* with the editor text: for every line i of the text that holds a node,
\* nodeAtLine(i) is the node shown on line i and lineOfNode of that node is i.
IndexFreshAfterReparent ==
    lastEvent.op = "drop"
        => LET shown == ShownNodes(nodes, mmRoot)
           IN  \A i \in 1..Len(shown) :
                   /\ GetNodeByLine(lineMap, i - 1) = shown[i]
                   /\ GetLineByNode(lineMap, shown[i]) = i - 1

----------------------------------------------------------------------------
(* The tree and the index of one parse call, against the text parsed.       *)
(* After ParseInput the text is `input` and the root t1; after ParseAgain   *)
(* the text is s1 and the root t2.                                          *)

JustParsed == pc \in {"parsed", "reparsed"}
ParsedText == IF pc \in {"parsed", "converted"} THEN input ELSE s1
ParsedRoot == IF pc \in {"parsed", "converted"} THEN t1 ELSE t2

\* the entries parse builds the tree from: the list lines, or the headings
\* when there is no list line
Entries(text) ==
    LET items == ExtractListItems(text)
    IN  IF items # <<>> THEN items ELSE ExtractHeadings(text)

\* the indices of the entries at the minimum depth
TopEntries(es) ==
    {i \in 1..Len(es) : \A j \in 1..Len(es) : es[i].level <= es[j].level}

IndexOf(seq, x) == Min({k \in 1..Len(seq) : seq[k] = x})

SeveralTopHeadings(text) ==
    /\ ExtractListItems(text) = <<>>
    /\ Cardinality(TopEntries(ExtractHeadings(text))) > 1

RECURSIVE SizesUpTo(_, _, _)
SizesUpTo(h, kids, i) ==
    IF i = 0 THEN 0
    ELSE SizesUpTo(h, kids, i - 1) + Cardinality(Reach(h, {kids[i]}))

\* C13 -- Virtual root transparency: converting a tree whose root is a
\* synthesized virtual root emits no line for the root: the output has one
\* line per node below the root, the subtrees of the children follow each
\* other in order, each child's line is "- " + label without indentation and
\* every other line is indented.
VirtualRootTransparent ==
    (/\ pc \in {"converted", "done"}
     /\ ParsedRoot # None
     /\ GetLineByNode(lineMap, ParsedRoot) = -1) =>
        LET out == SplitLines(IF pc = "converted" THEN s1 ELSE s2)
            kids == nodes[ParsedRoot].children
            starts == {1 + SizesUpTo(nodes, kids, i - 1) : i \in 1..Len(kids)}
        IN  /\ Len(out) = SizesUpTo(nodes, kids, Len(kids))
            /\ \A i \in 1..Len(kids) :
                   out[1 + SizesUpTo(nodes, kids, i - 1)]
                       = <<"-", " ">> \o nodes[kids[i]].text
            /\ \A k \in 1..Len(out) :
                   k \notin starts => (out[k] # <<>> /\ Head(out[k]) = " ")

\* a virtual root over a child with a child of its own has been converted
VirtualRootTransparentWitness ==
    /\ pc = "converted"
    /\ t1 # None
    /\ GetLineByNode(lineMap, t1) = -1
    /\ nodes[t1].text = VirtualRootText
    /\ nodes[nodes[t1].children[1]].children # <<>>
    /\ Len(SplitLines(s1)) = 3

\* the node parse made of entry i of es
NodeOfEntry(es, i) == GetNodeByLine(lineMap, es[i].line)

\* C14 -- when exactly one entry of the parsed text is at the minimum depth,
\* that entry is the root of the returned tree, wherever it stands in the text
\* (list dialect and heading dialect).
SingleTopEntryIsRoot ==
    JustParsed =>
        LET es == Entries(ParsedText)
            top == TopEntries(es)
        IN  Cardinality(top) = 1 =>
                /\ ParsedRoot # None
                /\ \A i \in top :
                       /\ NodeOfEntry(es, i) = ParsedRoot
                       /\ nodes[ParsedRoot].text = es[i].text

\* the entries before entry i that are less deep than it
Shallower(es, i) == {j \in 1..(i - 1) : es[j].level < es[i].level}

\* C15 -- Parent selection and level-skip tolerance: the parent of each entry
\* after the root is the most recent preceding entry of strictly smaller
\* depth, and the root (or virtual root) when there is none, whatever the
\* size of the depth jump; every entry is attached to the tree.
ParentIsNearestShallower ==
    (JustParsed /\ ParsedRoot # None) =>
        LET es == Entries(ParsedText)
            root == ParsedRoot
        IN  /\ \A i \in 1..Len(es) :
                   LET n == NodeOfEntry(es, i)
                       above == Shallower(es, i)
                       parent == IF above = {} THEN root
                                 ELSE NodeOfEntry(es, Max(above))
                   IN  /\ n # None
                       /\ n \in Reach(nodes, {root})
                       /\ n # root =>
                              /\ nodes[n].parent = parent
                              /\ Contains(nodes[parent].children, n)
            /\ Cardinality(Reach(nodes, {root}) \ {root}) >= Len(es) - 1

\* an entry two levels below its parent, and an entry whose parent is not the
\* entry just before it
ParentIsNearestShallowerWitness ==
    /\ pc = "parsed"
    /\ t1 # None
    /\ LET es == Entries(input)
       IN  /\ Len(es) = 3
           /\ \E i \in 2..3 :
                  /\ Shallower(es, i) # {}
                  /\ es[i].level >= es[Max(Shallower(es, i))].level + 2
                  /\ nodes[NodeOfEntry(es, i)].parent
                         = NodeOfEntry(es, Max(Shallower(es, i)))
           /\ nodes[NodeOfEntry(es, 3)].parent = NodeOfEntry(es, 1)

Range(f) == {f[x] : x \in DOMAIN f}

\* the root when it was made of no entry
Synthesized(root) == IF GetLineByNode(lineMap, root) = -1 THEN {root} ELSE {}

\* C16 -- Dialect priority: when the text has a list line, the tree is built
\* from the list lines only and no heading line becomes a node or an index
\* entry; the headings are used only when the text has no list line.
ListDialectWins ==
    JustParsed =>
        LET items == ExtractListItems(ParsedText)
            headings == ExtractHeadings(ParsedText)
            used == IF items # <<>> THEN items ELSE headings
            root == ParsedRoot
        IN  /\ DOMAIN lineMap = {used[i].line : i \in 1..Len(used)}
            /\ \A i \in 1..Len(used) : nodes[lineMap[used[i].line]].text = used[i].text
            /\ items # <<>> =>
                   \A i \in 1..Len(headings) : headings[i].line \notin DOMAIN lineMap
            /\ used # <<>> =>
                   /\ root # None
                   /\ Reach(nodes, {root}) \ Synthesized(root) = Range(lineMap)
            /\ used = <<>> => root = None

\* a text with list lines and a heading has been parsed
ListDialectWinsWitness ==
    /\ pc = "parsed"
    /\ Len(ExtractListItems(input)) = 2
    /\ Len(ExtractHeadings(input)) = 1
    /\ t1 # None
    /\ Cardinality(DOMAIN lineMap) = 2

\* C18 -- the index and its inverse agree after every parse: lineOfNode of
\* the node at line l is l; every node of the returned tree other than a
\* synthesized virtual root has exactly one line, the line it was parsed from,
\* and the virtual root has none.
IndexAndInverseAgree ==
    JustParsed =>
        LET es == Entries(ParsedText)
            root == ParsedRoot
            virtual == Cardinality(TopEntries(es)) > 1
        IN  /\ \A l \in DOMAIN lineMap :
                   GetLineByNode(lineMap, GetNodeByLine(lineMap, l)) = l
            /\ root = None => DOMAIN lineMap = {}
            /\ root # None =>
                   \A n \in Reach(nodes, {root}) :
                       IF n = root /\ virtual
                       THEN /\ GetLineByNode(lineMap, n) = -1
                            /\ n \notin Range(lineMap)
                       ELSE /\ Cardinality({l \in DOMAIN lineMap : lineMap[l] = n}) = 1
                            /\ \E i \in 1..Len(es) :
                                   /\ es[i].line = GetLineByNode(lineMap, n)
                                   /\ es[i].text = nodes[n].text
                            /\ GetNodeByLine(lineMap, GetLineByNode(lineMap, n)) = n

\* a virtual root over the entries of lines 0 and 2
IndexAndInverseAgreeWitness ==
    /\ pc = "parsed"
    /\ t1 # None
    /\ GetLineByNode(lineMap, t1) = -1
    /\ DOMAIN lineMap = {0, 2}
    /\ GetNodeByLine(lineMap, 1) = None
    /\ GetLineByNode(lineMap, nodes[t1].children[2]) = 2

Matched(line) == ListMatch(line).ok \/ HeadingMatch(line).ok

\* C19 -- lines that match neither list nor heading syntax never become
\* nodes and do not affect the tree: the tree has the shape and labels of the
\* tree parsed from the text with those lines deleted.
UnmatchedLinesIgnored ==
    pc = "parsed" =>
        LET lines == SplitLines(input)
            kept == SelectSeq(lines, Matched)
            r == Parse(<<>>, <<>>, 1, JoinLines(kept))
        IN  /\ Shape(nodes, t1) = Shape(r.nodes, r.root)
            /\ \A l \in DOMAIN lineMap : Matched(lines[l + 1])
            /\ Cardinality(DOMAIN lineMap) = Cardinality(DOMAIN r.map)

\* body text stands between an entry and its child
UnmatchedLinesIgnoredWitness ==
    /\ pc = "parsed"
    /\ Len(SplitLines(input)) = 3
    /\ ~Matched(SplitLines(input)[2])
    /\ Strip(SplitLines(input)[2]) # <<>>
    /\ t1 # None
    /\ GetLineByNode(lineMap, t1) = 0
    /\ Len(nodes[t1].children) = 1
    /\ GetLineByNode(lineMap, nodes[t1].children[1]) = 2

\* C20 -- Sibling order: in every tree parse returns, the children of each
\* node (the virtual root included) are in the order of their source lines.
SiblingsInLineOrder ==
    (JustParsed /\ ParsedRoot # None) =>
        \A n \in Reach(nodes, {ParsedRoot}) :
            LET kids == nodes[n].children
            IN  \A i \in 1..Len(kids), j \in 1..Len(kids) :
                    i < j => /\ GetLineByNode(lineMap, kids[i]) >= 0
                             /\ GetLineByNode(lineMap, kids[i])
                                    < GetLineByNode(lineMap, kids[j])

\* an entry with two children has been parsed
SiblingsInLineOrderWitness ==
    /\ pc = "parsed"
    /\ t1 # None
    /\ GetLineByNode(lineMap, t1) = 0
    /\ Len(nodes[t1].children) = 2
    /\ GetLineByNode(lineMap, nodes[t1].children[2]) = 2

----------------------------------------------------------------------------
(* SpecIndex: parse called any number of times on one MarkdownParser.  The *)
(* caller keeps the returned root only; `input` is the text of the last    *)
(* call and t1 the root it returned.                                       *)

\* the lines the texts of the calls are made of
IndexLines ==
    { <<"-", " ", "a">>,      \* list entry
      <<"#", " ", "a">>,      \* heading
      <<"a">>,                \* matches no pattern
      <<" ">> }               \* blank

IndexTexts == {JoinLines(ls) : ls \in SeqsUpTo(IndexLines, MaxCallLines)}

InitIndex ==
    /\ nodes = <<>>
    /\ nextId = 1
    /\ lineMap = <<>>
    /\ AppIdle
    /\ pc = "start"
    /\ input = <<>>
    /\ t1 = None /\ s1 = <<>> /\ t2 = None /\ s2 = <<>>

\* parser.parse(text); lastEvent records the returned root, the identity of
\* the first object the call created and the size of the index before it
CallParse ==
    \E text \in IndexTexts :
        \E r \in {Parse(lineMap, nodes, nextId, text)} :
            /\ r.next <= MaxIds + 1
            /\ nodes' = [n \in Reach(r.nodes, ({r.root} \ {None}) \cup Range(r.map))
                             |-> r.nodes[n]]
            /\ nextId' = r.next
            /\ lineMap' = r.map
            /\ t1' = r.root
            /\ input' = text
            /\ pc' = "parsed"
            /\ lastEvent' = [op |-> "parse", a |-> r.root, b |-> nextId,
                             c |-> Cardinality(DOMAIN lineMap)]
            /\ UNCHANGED <<editorText, mmRoot, viewRoot, viewItems,
                           updatingFromDrag, log, exc, s1, t2, s2>>

NextIndex == CallParse

SpecIndex == InitIndex /\ [][NextIndex]_vars

\* C17 -- the Line-Node Index is rebuilt wholesale by every parse call: after
\* any sequence of calls on one parser the index holds exactly the lines
\* matched in the most recent text and only nodes that call created; parsing
\* empty, blank or unrecognised text returns None and leaves the index empty.
IndexRebuiltByParse ==
    lastEvent.op = "parse" =>
        LET es == Entries(input)
        IN  /\ DOMAIN lineMap = {es[i].line : i \in 1..Len(es)}
            /\ \A l \in DOMAIN lineMap :
                   /\ lineMap[l] >= lastEvent.b
                   /\ lineMap[l] < nextId
                   /\ t1 # None /\ lineMap[l] \in Reach(nodes, {t1})
            /\ es = <<>> => (t1 = None /\ DOMAIN lineMap = {} /\ nextId = lastEvent.b)

\* a blank text has been parsed by a parser whose index had two entries
IndexRebuiltByParseWitness ==
    /\ lastEvent.op = "parse"
    /\ lastEvent.c >= 2
    /\ lastEvent.b > 1
    /\ input # <<>> /\ Strip(input) = <<>>
    /\ t1 = None
    /\ DOMAIN lineMap = {}

----------------------------------------------------------------------------
(* The text convert returns, against the tree converted (SpecParse) *)

ConvertedRoot == IF pc = "converted" THEN t1 ELSE t2
ConvertedText == IF pc = "converted" THEN s1 ELSE s2

\* the number of lines of a text written by "\n".join(lines)
LineCount(text) == IF text = <<>> THEN 0 ELSE Len(SplitLines(text))

\* C21 -- Serializer output: convert walks the tree in pre-order and emits one
\* line per visited node, (two spaces times depth) + "- " + label, the first
\* visited level at depth 0 and each child one deeper than its parent (a root
\* carrying the virtual-root marker is not visited, its children are at depth
\* 0); lines are joined by a newline without a trailing newline, and a null
\* root gives the empty string.
SerializerOutput ==
    pc \in {"converted", "done"} =>
        LET root == ConvertedRoot
            skip == IF root # None /\ nodes[root].text = VirtualRootText THEN 1 ELSE 0
            walk == IF root = None THEN <<>> ELSE LineNodes(nodes, root)
            visited == SubSeq(walk, 1 + skip, Len(walk))
            line(n) == Spaces(2 * (Cardinality(Ancestors(nodes, n)) - skip))
                           \o <<"-", " ">> \o nodes[n].text
        IN  /\ root = None => ConvertedText = <<>>
            /\ visited = <<>> => ConvertedText = <<>>
            /\ visited # <<>> =>
                   /\ SplitLines(ConvertedText)
                          = [i \in 1..Len(visited) |-> line(visited[i])]
                   /\ ConvertedText[Len(ConvertedText)] # NL

\* a tree three levels deep has been converted
SerializerOutputWitness ==
    /\ pc = "converted"
    /\ t1 # None
    /\ nodes[t1].text # VirtualRootText
    /\ Len(nodes[t1].children) = 1
    /\ Len(nodes[nodes[t1].children[1]].children) = 1
    /\ Len(SplitLines(s1)) = 3
    /\ SubSeq(SplitLines(s1)[3], 1, 6) = <<" ", " ", " ", " ", "-", " ">>

----------------------------------------------------------------------------
(* Reparents and the Line-Node Index (SpecApp) *)

\* C22 -- a reparent (add_child and remove_child as called by the view's drop
\* handler, followed by the main window's reparent handler) leaves the
\* Line-Node Index unchanged: every line maps to the same node before and
\* after.
ReparentKeepsIndex ==
    [][lastEvent'.op = "drop"
       => /\ DOMAIN lineMap' = DOMAIN lineMap
          /\ \A l \in 0..MaxLines :
                 GetNodeByLine(lineMap', l) = GetNodeByLine(lineMap, l)
          /\ \A n \in DOMAIN nodes :
                 GetLineByNode(lineMap', n) = GetLineByNode(lineMap, n)]_vars

\* a drop has moved the node of line 2 below the node of line 0
ReparentKeepsIndexWitness ==
    /\ lastEvent.op = "drop"
    /\ exc = ""
    /\ DOMAIN lineMap = {0, 1, 2}
    /\ lastEvent.a = lineMap[2]
    /\ lastEvent.b = lineMap[0]
    /\ lastEvent.c # lastEvent.b
    /\ nodes[lineMap[2]].parent = lineMap[0]

----------------------------------------------------------------------------
(* MindMap.get_all_nodes (SpecApp) *)

\* the position of node n in the list
PositionIn(list, n) == CHOOSE i \in 1..Len(list) : list[i] = n

\* C23 -- MindMap.get_all_nodes returns every node reachable from the root
\* exactly once, in depth-first pre-order (a node first, then the whole
\* subtree of each child, children in list order), and the empty list when
\* the root is null, including after clear().
AllNodesPreOrder ==
    LET list == GetAllNodes(nodes, mmRoot)
        at(n) == PositionIn(list, n)
        under(n) == Reach(nodes, {n})
    IN  /\ mmRoot = None => list = <<>>
        /\ lastEvent.op = "new" => list = <<>>
        /\ mmRoot # None =>
               /\ {list[i] : i \in 1..Len(list)} = under(mmRoot)
               /\ Len(list) = Cardinality(under(mmRoot))
               /\ list[1] = mmRoot
               /\ \A n \in under(mmRoot) :
                      LET children == nodes[n].children
                      IN  /\ {list[i] : i \in at(n)..(at(n) + Cardinality(under(n)) - 1)}
                                 = under(n)
                          /\ children # <<>> => at(children[1]) = at(n) + 1
                          /\ \A i \in 1..(Len(children) - 1) :
                                 at(children[i + 1])
                                     = at(children[i]) + Cardinality(under(children[i]))

\* a root with two children, the second of which has a child of its own
AllNodesPreOrderWitness ==
    /\ mmRoot # None
    /\ Len(nodes[mmRoot].children) = 2
    /\ Len(nodes[nodes[mmRoot].children[2]].children) = 1
    /\ Len(GetAllNodes(nodes, mmRoot)) = 4

----------------------------------------------------------------------------
(* Entries kept by parse and by convert (SpecParse) *)

\* the nodes of the parsed tree that have a source line, in pre-order
EntryNodes ==
    LET hasLine(n) == GetLineByNode(lineMap, n) # -1
    IN  IF t1 = None THEN <<>> ELSE SelectSeq(LineNodes(nodes, t1), hasLine)

\* one node per entry of the winning dialect, met in source-line order by the
\* pre-order traversal, and at most one node without a line
EntriesInLineOrder ==
    pc = "converted" =>
        LET es == Entries(input)
            walk == IF t1 = None THEN <<>> ELSE LineNodes(nodes, t1)
        IN  /\ Len(EntryNodes) = Len(es)
            /\ Len(walk) <= Len(es) + 1
            /\ \A i \in 1..Len(EntryNodes) :
                   /\ GetLineByNode(lineMap, EntryNodes[i]) = es[i].line
                   /\ nodes[EntryNodes[i]].text = es[i].text

\* the converted text has one line per entry, in the same order
OneLinePerEntry ==
    pc = "converted" =>
        LET es == Entries(input)
            out == IF s1 = <<>> THEN <<>> ELSE SplitLines(s1)
        IN  /\ Len(out) = Len(es)
            /\ \A i \in 1..Len(out) : LStrip(out[i]) = <<"-", " ">> \o es[i].text

\* C24 -- parsing neither loses nor reorders entries: the tree returned by
\* parse has exactly one non-virtual node per matched line of the winning
\* dialect, its pre-order traversal lists them in strictly increasing source
\* line order, so convert(parse(text)) has one line per matched line of text,
\* in the same order.
ParseKeepsEntries == EntriesInLineOrder /\ OneLinePerEntry

\* C26 -- the serializer skips only a parser-synthesized virtual root: for
\* every tree returned by parse whose root was parsed from a source line,
\* whatever that line's label, convert emits a line for the root, so
\* convert(parse(text)) has one line for every matched line of text.
ParsedRootIsEmitted ==
    (pc = "converted" /\ t1 # None /\ GetLineByNode(lineMap, t1) # -1) =>
        /\ s1 # <<>>
        /\ SplitLines(s1)[1] = <<"-", " ">> \o nodes[t1].text
        /\ LineCount(s1) = Len(Entries(input))

\* C27 -- every node created by parse has a non-empty label, so each line
\* convert emits for a parsed tree is again a list line that the parser
\* recognises.
LabelsNonEmpty ==
    pc = "converted" =>
        /\ \A n \in Range(lineMap) : nodes[n].text # <<>>
        /\ s1 # <<>> =>
               \A i \in 1..Len(SplitLines(s1)) : ListMatch(SplitLines(s1)[i]).ok

----------------------------------------------------------------------------
(* Reparents and the editor text (SpecApp) *)

\* the labels of the entries of a text
LabelsOf(text) == {Entries(text)[i].text : i \in 1..Len(Entries(text))}

\* how many entries of the text have the label
LabelCount(text, label) ==
    Cardinality({i \in 1..Len(Entries(text)) : Entries(text)[i].text = label})

\* the step keeps the set of nodes reachable from the MindMap root
KeepsNodes ==
    Reach(nodes', {mmRoot'} \ {None}) = Reach(nodes, {mmRoot} \ {None})

\* C25 -- no data loss on reparent: after a drag-and-drop reparent on a
\* parsed tree the set of nodes reachable from the MindMap root is the same
\* as before, so the text pushed to the editor has the same number of lines
\* and the same multiset of labels as the text before the drop.
ReparentLosesNothing ==
    [][lastEvent'.op = "drop"
       => /\ KeepsNodes
          /\ LineCount(editorText') = LineCount(editorText)
          /\ \A label \in LabelsOf(editorText) \cup LabelsOf(editorText') :
                 LabelCount(editorText', label) = LabelCount(editorText, label)]_vars

----------------------------------------------------------------------------
(* The two front ends (SpecApp) *)

\* C28 -- both front ends show the same tree: after any sequence of editor
\* text changes and drag-and-drop reparents, whenever no handler is running,
\* the root displayed by MindMapView is the same node as MindMap.root (or
\* both are null).
SameRootShown == viewRoot = mmRoot

\* a drop has been handled on the tree of an edit, and both show its root
SameRootShownWitness ==
    /\ lastEvent.op = "drop"
    /\ exc = ""
    /\ nodes[lastEvent.a].parent = lastEvent.b
    /\ lastEvent.c # lastEvent.b
    /\ mmRoot # None
    /\ viewRoot = mmRoot

----------------------------------------------------------------------------
(* Children lists (SpecNode) *)

\* C29 -- after any sequence of Node.add_child and Node.remove_child calls,
\* no children list contains the same node twice, and no node is in the
\* children lists of two different parents.
ChildListedOnce ==
    \A n \in DOMAIN nodes :
        /\ \A p \in DOMAIN nodes : Count(nodes[p].children, n) <= 1
        /\ \A p \in DOMAIN nodes, q \in DOMAIN nodes :
               (Contains(nodes[p].children, n) /\ Contains(nodes[q].children, n))
                   => p = q

\* add_child has moved a node from one parent to another that had a child
\* already: it is in the new list once and no longer in the old one
ChildListedOnceWitness ==
    /\ lastEvent.op = "add_child"
    /\ exc = ""
    /\ lastEvent.c \notin {None, lastEvent.a}
    /\ Len(nodes[lastEvent.a].children) = 2
    /\ Count(nodes[lastEvent.a].children, lastEvent.b) = 1
    /\ ~Contains(nodes[lastEvent.c].children, lastEvent.b)

----------------------------------------------------------------------------
(* SpecBuild: the two assemblies applied to the same sequence of entries     *)
(*   t1 = _build_tree_from_list(entries at depths d)                         *)
(*   t2 = _build_tree(entries at depths d + 1)                               *)

\* the sequences of entries (depth, label, line) the extraction can hand over
EntryLists ==
    UNION {{[i \in 1..k |-> [level |-> ls[i], text |-> ts[i], line |-> i - 1]] :
               ls \in [1..k -> 0..MaxDepth], ts \in [1..k -> {<<"a">>, <<"b">>}]} :
           k \in 0..MaxLines}

InitBuild ==
    /\ input \in EntryLists
    /\ pc = "entries"
    /\ nodes = <<>>
    /\ nextId = 1
    /\ lineMap = <<>>
    /\ t1 = None /\ s1 = <<>> /\ t2 = None /\ s2 = <<>>
    /\ AppIdle

\* t1 = self._build_tree_from_list(items)
CallBuildTreeFromList ==
    /\ pc = "entries"
    /\ \E r \in {IF input = <<>>
                  THEN [nodes |-> nodes, next |-> nextId, root |-> None, map |-> lineMap]
                  ELSE BuildTreeFromList(lineMap, nodes, nextId, input)} :
           /\ nodes' = r.nodes
           /\ nextId' = r.next
           /\ lineMap' = r.map
           /\ t1' = r.root
    /\ pc' = "list_built"
    /\ UNCHANGED <<input, s1, t2, s2, appVars>>

\* t2 = self._build_tree(headings), the same entries one level deeper
CallBuildTree ==
    /\ pc = "list_built"
    /\ \E r \in {IF input = <<>>
                  THEN [nodes |-> nodes, next |-> nextId, root |-> None, map |-> lineMap]
                  ELSE BuildTree(lineMap, nodes, nextId, AdjustLevels(input, 1))} :
           /\ nodes' = r.nodes
           /\ nextId' = r.next
           /\ lineMap' = r.map
           /\ t2' = r.root
    /\ pc' = "both_built"
    /\ UNCHANGED <<input, t1, s1, s2, appVars>>

NextBuild == CallBuildTreeFromList \/ CallBuildTree

SpecBuild == InitBuild /\ [][NextBuild]_vars

\* the place of node n in the pre-order traversal of the tree under root
PlaceIn(h, root, n) == PositionIn(LineNodes(h, root), n)

====
